---- MODULE Spec2Model ----
(***************************************************************************)
(* Model of the GPU orchestrator of ocioconvert (class GPUManagement in    *)
(* src/apps/ocioconvert/main.cpp): its lifecycle state machine, the        *)
(* graphics resources it creates and releases, the process exit paths      *)
(* (exit(1), return from main, static destruction of the singleton).       *)
(*                                                                         *)
(* Spec drives the orchestrator with an arbitrary client: any public       *)
(* operation may be called in any state, with any input of the bounded     *)
(* input sets, until the process exits.                                    *)
(***************************************************************************)
EXTENDS Integers, Sequences, FiniteSets

\* ------------------------------------------------------------------ bounds
\* Longest sequence of orchestrator calls a run of the client makes.
MaxCalls == 6
\* Images have at most MaxPixels pixels: width * height <= MaxPixels.
MaxPixels == 2
\* Channel counts are drawn from 1..MaxChannels (3 and 4 are the supported ones).
MaxChannels == 5

\* ------------------------------------------------------- program constants
\* enum State (main.cpp:319-327)
STATE_CREATED == 0
STATE_INITIALIZED == 1
STATE_IMAGE_PREPARED == 2
STATE_SHADER_UPDATED == 3
STATE_IMAGE_PROCESSED == 4
STATE_IMAGE_READ == 5

\* The OpenGL pixel formats stored in m_format (values of <GL/gl.h>).
GL_RGB == 6407
GL_RGBA == 6408

\* OCIO::OpenGLBuilderRcPtr: a null pointer, or the builder made at line 223.
NullBuilder == "null"
Builder == "OpenGLBuilder"

\* The diagnostics written before exit(1).
DiagNone == ""
DiagNoGL20 == "OpenGL 2.0 not supported"
DiagNotInitialized == "The GPU engine is not initialized."
DiagBadChannels == "Cannot process with GPU image with N components."
DiagNotPrepared == "GPU image not prepared."
DiagNotUpdated == "GPU shader has not been updated."
DiagNotProcessed == "Image has not been processed by GPU shader."
DiagOCIO == "ERROR: OCIO failed with: <what>"

\* Where an external-library call of updateGPUShader throws: nowhere, in
\* extractGpuShaderInfo / OpenGLBuilder::Create (before m_oglBuilder is
\* assigned), or in buildProgram (after it is assigned).
LibFailures == {"none", "extract", "build"}

VARIABLES
    pc,            \* the process: "running", "exiting" (exit or return from main
                   \* reached, static destructors pending), "exited"
    apple,         \* the build: TRUE when compiled with __APPLE__
    gl20,          \* the environment: what glewIsSupported("GL_VERSION_2_0") answers
    processor,     \* the caller holds an OCIO processor (config->getProcessor returned)
    constructed,   \* the function-local static of Instance() has been constructed
    instSeen,      \* m_initState of the object the latest Instance() call returned
                   \* (-1: Instance() has not been called)
    m_glwin,       \* GLint m_glwin
    m_initState,   \* State m_initState
    m_oglBuilder,  \* OCIO::OpenGLBuilderRcPtr m_oglBuilder
    m_imageTexID,  \* GLuint m_imageTexID
    m_format,      \* GLenum m_format
    m_width,       \* long m_width
    m_height,      \* long m_height
    gl,            \* the GLUT / OpenGL state the orchestrator acts on
    glLog,         \* the resource calls issued, in order
    diag,          \* the diagnostic written to std::cerr / std::cout
    teardowns,     \* number of times cleanUp() has run
    calls,         \* the calls made so far: operation, inputs, state before and
                   \* after, and how the call ended
    thr,           \* the callers of the orchestrator: whether they run as threads,
                   \* and where each one is inside a call it has begun
    drv            \* the driver main(): where it is, its options, the image it
                   \* loaded and what it has done with it

vars == <<pc, apple, gl20, processor, constructed, instSeen, thr, m_glwin, m_initState, m_oglBuilder, m_imageTexID,
          m_format, m_width, m_height, gl, glLog, diag, teardowns, calls, thr, drv>>

fields == <<m_glwin, m_initState, m_oglBuilder, m_imageTexID, m_format, m_width,
            m_height>>

NoImage == [w |-> 0, h |-> 0, fmt |-> 0]

\* The colour transforms a processor stands for: the identity, and one that
\* changes the colours (it negates them).
NoTransform == "none"
Identity == "identity"
Invert == "invert"
Transforms == {Identity, Invert}

\* The graphics state before any call: no window, no texture, no framebuffer,
\* no program in use, nothing drawn, nothing read back.  texData holds the
\* texels of the image texture and rboData the pixels of the renderbuffer,
\* both row by row from the bottom row, each an RGBA quadruple; pixels is the
\* buffer glReadPixels has filled.  A float is written in tenths: 10 is 1.0.
glInit ==
    [windows |-> {}, nWindows |-> 0, destroyed |-> {},
     textures |-> {}, fbos |-> 0, rbos |-> 0, boundFbo |-> 0,
     texImage |-> NoImage, configured |-> FALSE, programInUse |-> FALSE,
     viewport |-> NoImage, draws |-> 0, swaps |-> 0, readPixels |-> NoImage,
     texData |-> <<>>, rboData |-> <<>>, shader |-> NoTransform, pixels |-> <<>>]

\* The callers of the orchestrator.  main() is one caller; the second one is
\* the other thread of a client that shares the singleton between two threads.
Threads == {"t1", "t2"}

\* No caller is inside a call.  threaded tells whether a caller may begin a
\* call while another one is inside a call (two threads), or each call
\* completes before the next is issued (one thread, as in main()).
Idle(threaded) ==
    [threaded |-> threaded,
     loc |-> [t \in Threads |-> "idle"],
     from |-> [t \in Threads |-> STATE_CREATED],
     args |-> [t \in Threads |-> [data |-> <<>>, width |-> 0, height |-> 0,
                                  numChannels |-> 0, fail |-> "none"]]]

\* main() before its first statement: no option parsed, no image loaded,
\* nothing processed, reported or written.
\* attrs lists the attribute strings passed, TRUE for one that parses.
\* crop lists the accesses of the crop / channel-selection loop, each with the
\* index k of the kept channel, the pixel written to, the index read in the
\* source buffer and the index written in the cropped buffer.
NotStarted ==
    [loc |-> "start", usegpu |-> FALSE, usegpuLegacy |-> FALSE, croptofull |-> FALSE,
     spec |-> [width |-> 0, height |-> 0, nchannels |-> 0, x |-> 0, y |-> 0,
               full_width |-> 0, full_height |-> 0, format |-> "NONE"],
     imgwidth |-> 0, imgheight |-> 0, components |-> 0,
     kept |-> 0, crop |-> {}, cropped |-> FALSE,
     processed |-> FALSE, attrs |-> <<>>, examined |-> 0, reported |-> 0, parseerror |-> FALSE,
     opened |-> FALSE, written |-> FALSE]

\* GPUManagement::GPUManagement(), the build the process was compiled as and
\* the OpenGL implementation it runs on.
Init ==
    /\ thr = Idle(FALSE)
    /\ drv = NotStarted
    /\ pc = "running"
    /\ apple \in BOOLEAN
    /\ gl20 \in BOOLEAN
    /\ processor = FALSE
    /\ constructed = FALSE
    /\ instSeen = -1
    /\ m_glwin = 0
    /\ m_initState = STATE_CREATED
    /\ m_oglBuilder = NullBuilder
    /\ m_imageTexID = 0
    /\ m_format = 0
    /\ m_width = 0
    /\ m_height = 0
    /\ gl = glInit
    /\ glLog = <<>>
    /\ diag = DiagNone
    /\ teardowns = 0
    /\ calls = <<>>

\* ------------------------------------------------------------- helpers

\* A public operation can be called: the process runs, the singleton exists.
CanCall == pc = "running" /\ constructed /\ Len(calls) < MaxCalls

\* The record of one call, appended to calls.
Call(op, args, to, result, d) ==
    [op |-> op, args |-> args, from |-> m_initState, to |-> to,
     result |-> result, diag |-> d]

\* exit(1) after writing diagnostic d: static destruction follows.
\* Mutant: the diagnostic is written but the process is not ended.
exit1_returns(d) == pc' = pc /\ diag' = d

exit1(d) == pc' = "exiting" /\ diag' = d

Last(s) == s[Len(s)]

\* The inputs of a call; a call leaves the fields it does not take at these values.
\* (verbose, legacyShader and gpuinfo select what is printed and which form of
\* shader description the library is asked for; no state of the orchestrator
\* depends on them, and the record of a call leaves them out.)
NoArgs == [data |-> <<>>, width |-> 0, height |-> 0, numChannels |-> 0, fail |-> "none"]

\* ------------------------------------------------- GPUManagement::Instance
\* static GPUManagement inst; constructed on the first call, returned afterwards.
\* Mutant: inst is not static, every call constructs the object anew.
Instance_fresh ==
    /\ pc = "running"
    /\ constructed' = TRUE
    /\ m_glwin' = 0
    /\ m_initState' = STATE_CREATED
    /\ m_oglBuilder' = NullBuilder
    /\ m_imageTexID' = 0
    /\ m_format' = 0
    /\ m_width' = 0
    /\ m_height' = 0
    /\ instSeen' = STATE_CREATED
    /\ UNCHANGED <<pc, apple, gl20, processor, gl, glLog, diag, teardowns, calls, thr>>

Instance ==
    /\ pc = "running"
    /\ constructed' = TRUE
    /\ IF constructed
          THEN UNCHANGED fields
          ELSE /\ m_glwin' = 0
               /\ m_initState' = STATE_CREATED
               /\ m_oglBuilder' = NullBuilder
               /\ m_imageTexID' = 0
               /\ m_format' = 0
               /\ m_width' = 0
               /\ m_height' = 0
    /\ instSeen' = m_initState'
    /\ UNCHANGED <<pc, apple, gl20, processor, gl, glLog, diag, teardowns, calls, thr>>

\* ----------------------------------------------------- GPUManagement::init
\* if (m_initState != STATE_CREATED) return;   -- the negation of this test
\* Mutants of the test: init also restarts a finished cycle; init always runs.
init_pre_reset == m_initState \in {STATE_CREATED, STATE_IMAGE_READ}

init_pre_always == TRUE

init_pre == m_initState = STATE_CREATED

\* The capability test of init: compiled out under __APPLE__, otherwise
\* glewIsSupported("GL_VERSION_2_0").
\* Mutant of the test: the negation of glewIsSupported is missing.
CapabilityMissing_inverted == ~apple /\ gl20

CapabilityMissing == ~apple /\ ~gl20

\* glutCreateWindow: a new window with a fresh positive identifier.
glutCreateWindow(g) ==
    [g EXCEPT !.windows = @ \cup {g.nWindows + 1}, !.nWindows = @ + 1]

init(verbose) ==
    /\ CanCall
    /\ LET a == NoArgs IN
       IF ~init_pre
          THEN \* return: nothing is touched
               /\ calls' = Append(calls, Call("init", a, m_initState, "noop", DiagNone))
               /\ UNCHANGED <<pc, apple, gl20, processor, constructed, instSeen, thr, fields, gl, glLog, diag, teardowns>>
          ELSE /\ m_glwin' = gl.nWindows + 1
               /\ glLog' = Append(glLog, "glutCreateWindow")
               /\ IF CapabilityMissing
                     THEN /\ gl' = glutCreateWindow(gl)
                          /\ exit1(DiagNoGL20)
                          /\ UNCHANGED m_initState
                          /\ calls' = Append(calls,
                                      Call("init", a, m_initState, "abort", DiagNoGL20))
                     ELSE /\ gl' = [glutCreateWindow(gl) EXCEPT !.configured = TRUE]
                          /\ m_initState' = STATE_INITIALIZED
                          /\ UNCHANGED <<pc, diag>>
                          /\ calls' = Append(calls,
                                      Call("init", a, STATE_INITIALIZED, "ok", DiagNone))
               /\ UNCHANGED <<apple, gl20, processor, constructed, instSeen, thr, m_oglBuilder, m_imageTexID, m_format,
                              m_width, m_height, teardowns>>

\* --------------------------------------------- GPUManagement::prepareImage
\* Mutant of the test: a second image may be prepared once the first is read.
prepareImage_pre_batch == m_initState \in {STATE_INITIALIZED, STATE_IMAGE_READ}

prepareImage_pre == m_initState = STATE_INITIALIZED

\* The format chosen for a channel count; 0 stands for the final else branch
\* (no format: the count is not supported).
\* Mutant: the final else branch is missing, every other count is taken as RGB.
FormatOf_noElse(numChannels) == IF numChannels = 4 THEN GL_RGBA ELSE GL_RGB

\* Mutant: the two formats are exchanged.
FormatOf_swapped(numChannels) ==
    IF numChannels = 4 THEN GL_RGB
    ELSE IF numChannels = 3 THEN GL_RGBA
    ELSE 0

FormatOf(numChannels) ==
    IF numChannels = 4 THEN GL_RGBA
    ELSE IF numChannels = 3 THEN GL_RGB
    ELSE 0

\* The number of components of a pixel in an OpenGL format.
Components(format) ==
    IF format = GL_RGBA THEN 4
    ELSE IF format = GL_RGB THEN 3
    ELSE 0

\* 1.0f, in tenths: the alpha of a texel uploaded without an alpha component.
Opaque == 10

\* What a read outside a buffer yields: no value of the image.
Undefined == -1

\* glTexImage2D(GL_TEXTURE_2D, 0, GL_RGBA32F_ARB, width, height, 0, format,
\* GL_FLOAT, data): texel p takes Components(format) consecutive floats of
\* data; the components the format does not carry are filled, alpha with 1.0.
glTexImage2D(data, width, height, format) ==
    LET n == Components(format) IN
    [p \in 1..(width * height) |->
        [c \in 1..4 |-> IF c > n THEN Opaque
                        ELSE IF (p - 1) * n + c <= Len(data) THEN data[(p - 1) * n + c]
                        ELSE Undefined]]

\* glClearColor(0.1f, 0.1f, 0.1f, 0.1f); glClear(GL_COLOR_BUFFER_BIT | ...)
ClearColorPrepare == <<1, 1, 1, 1>>

\* glGenTextures .. glClear: the texture is generated and uploaded, the
\* framebuffer and the renderbuffer are generated, the renderbuffer is
\* attached at GL_COLOR_ATTACHMENT0 and the texture at GL_COLOR_ATTACHMENT1,
\* the framebuffer is bound and its draw buffer (attachment 0) is cleared.
UploadImage(g, data, width, height, format) ==
    [g EXCEPT !.textures = @ \cup {Cardinality(g.textures) + 1},
              !.texImage = [w |-> width, h |-> height, fmt |-> format],
              !.texData = glTexImage2D(data, width, height, format),
              !.fbos = @ + 1,
              !.rbos = @ + 1,
              !.boundFbo = g.fbos + 1,
              !.rboData = [p \in 1..(width * height) |-> ClearColorPrepare]]

prepareImage(data, width, height, numChannels) ==
    /\ CanCall
    /\ LET a == [NoArgs EXCEPT !.data = data, !.width = width, !.height = height,
                               !.numChannels = numChannels] IN
       IF ~prepareImage_pre
          THEN /\ exit1(DiagNotInitialized)
               /\ calls' = Append(calls,
                           Call("prepareImage", a, m_initState, "abort", DiagNotInitialized))
               /\ UNCHANGED <<apple, gl20, processor, constructed, instSeen, thr, fields, gl, glLog, teardowns>>
          ELSE /\ m_width' = width
               /\ m_height' = height
               /\ IF FormatOf(numChannels) = 0
                     THEN /\ exit1(DiagBadChannels)
                          /\ calls' = Append(calls,
                                 Call("prepareImage", a, m_initState, "abort", DiagBadChannels))
                          /\ UNCHANGED <<m_format, m_imageTexID, m_initState, gl, glLog>>
                     ELSE /\ m_format' = FormatOf(numChannels)
                          /\ m_imageTexID' = Cardinality(gl.textures) + 1
                          /\ gl' = UploadImage(gl, data, width, height, FormatOf(numChannels))
                          /\ glLog' = Append(glLog, "glGenTextures")
                          /\ m_initState' = STATE_IMAGE_PREPARED
                          /\ calls' = Append(calls,
                                      Call("prepareImage", a, STATE_IMAGE_PREPARED, "ok", DiagNone))
                          /\ UNCHANGED <<pc, diag>>
               /\ UNCHANGED <<apple, gl20, processor, constructed, instSeen, thr, m_glwin, m_oglBuilder, teardowns>>

\* ------------------------------------------------- main: get the processor
\* GetCurrentConfig / config->getProcessor (main.cpp:683-722): the caller
\* obtains the processor it will pass to updateGPUShader.  When the library
\* throws, the catch reports "ERROR: OCIO failed with: ..." and calls exit(1).
getProcessor(fail) ==
    /\ pc = "running"
    /\ ~processor
    /\ IF fail
          THEN exit1(DiagOCIO) /\ UNCHANGED processor
          ELSE processor' = TRUE /\ UNCHANGED <<pc, diag>>
    /\ UNCHANGED <<apple, gl20, constructed, instSeen, fields, gl, glLog, teardowns, calls, thr>>

\* ------------------------------------------ GPUManagement::updateGPUShader
\* Mutant of the test: the shader may be built before the image is prepared.
updateGPUShader_pre_lax == m_initState \in {STATE_INITIALIZED, STATE_IMAGE_PREPARED}

updateGPUShader_pre == m_initState = STATE_IMAGE_PREPARED

\* transform is the colour transform of the processor passed in; the program
\* built applies its shader function to every texel drawn.
\* fail = "extract": getDefaultGPUProcessor / extractGpuShaderInfo /
\* OpenGLBuilder::Create throws, m_oglBuilder is not assigned.
\* fail = "build": allocateAllTextures / buildProgram throws after the
\* assignment of line 223.  The exception leaves updateGPUShader and is caught
\* by the caller's catch (main.cpp:764-773), which reports it and calls exit(1).
\* Mutant: the state is advanced before the program is built, so a throw of
\* buildProgram leaves it advanced.
updateGPUShader_earlyState(transform, legacyShader, gpuinfo, fail) ==
    /\ CanCall
    /\ processor
    /\ LET a == [NoArgs EXCEPT !.fail = fail] IN
       IF ~updateGPUShader_pre
          THEN /\ exit1(DiagNotPrepared)
               /\ calls' = Append(calls,
                           Call("updateShader", a, m_initState, "abort", DiagNotPrepared))
               /\ UNCHANGED <<apple, gl20, processor, constructed, instSeen, thr, fields, gl, glLog, teardowns>>
          ELSE /\ IF fail = "extract"
                     THEN /\ exit1(DiagOCIO)
                          /\ calls' = Append(calls,
                                      Call("updateShader", a, m_initState, "throw", DiagOCIO))
                          /\ UNCHANGED <<m_oglBuilder, m_initState, gl, glLog>>
                     ELSE IF fail = "build"
                     THEN /\ m_oglBuilder' = Builder
                          /\ glLog' = Append(glLog, "OpenGLBuilder::Create")
                          /\ exit1(DiagOCIO)
                          /\ m_initState' = STATE_SHADER_UPDATED
                          /\ calls' = Append(calls,
                                      Call("updateShader", a, m_initState, "throw", DiagOCIO))
                          /\ UNCHANGED gl
                     ELSE /\ m_oglBuilder' = Builder
                          /\ glLog' = Append(glLog, "OpenGLBuilder::Create")
                          /\ gl' = [gl EXCEPT !.programInUse = TRUE, !.shader = transform]
                          /\ m_initState' = STATE_SHADER_UPDATED
                          /\ calls' = Append(calls,
                                      Call("updateShader", a, STATE_SHADER_UPDATED, "ok", DiagNone))
                          /\ UNCHANGED <<pc, diag>>
               /\ UNCHANGED <<apple, gl20, processor, constructed, instSeen, thr, m_glwin, m_imageTexID, m_format,
                              m_width, m_height, teardowns>>

updateGPUShader(transform, legacyShader, gpuinfo, fail) ==
    /\ CanCall
    /\ processor
    /\ LET a == [NoArgs EXCEPT !.fail = fail] IN
       IF ~updateGPUShader_pre
          THEN /\ exit1(DiagNotPrepared)
               /\ calls' = Append(calls,
                           Call("updateShader", a, m_initState, "abort", DiagNotPrepared))
               /\ UNCHANGED <<apple, gl20, processor, constructed, instSeen, thr, fields, gl, glLog, teardowns>>
          ELSE /\ IF fail = "extract"
                     THEN /\ exit1(DiagOCIO)
                          /\ calls' = Append(calls,
                                      Call("updateShader", a, m_initState, "throw", DiagOCIO))
                          /\ UNCHANGED <<m_oglBuilder, m_initState, gl, glLog>>
                     ELSE IF fail = "build"
                     THEN /\ m_oglBuilder' = Builder
                          /\ glLog' = Append(glLog, "OpenGLBuilder::Create")
                          /\ exit1(DiagOCIO)
                          /\ calls' = Append(calls,
                                      Call("updateShader", a, m_initState, "throw", DiagOCIO))
                          /\ UNCHANGED <<m_initState, gl>>
                     ELSE /\ m_oglBuilder' = Builder
                          /\ glLog' = Append(glLog, "OpenGLBuilder::Create")
                          /\ gl' = [gl EXCEPT !.programInUse = TRUE, !.shader = transform]
                          /\ m_initState' = STATE_SHADER_UPDATED
                          /\ calls' = Append(calls,
                                      Call("updateShader", a, STATE_SHADER_UPDATED, "ok", DiagNone))
                          /\ UNCHANGED <<pc, diag>>
               /\ UNCHANGED <<apple, gl20, processor, constructed, instSeen, thr, m_glwin, m_imageTexID, m_format,
                              m_width, m_height, teardowns>>

\* --------------------------------------------- GPUManagement::processImage
\* Mutant of the test: the state compared with is the one before the required one.
processImage_pre_early == m_initState = STATE_IMAGE_PREPARED

\* Mutant of the test: drawing is also allowed as soon as the image is prepared.
processImage_pre_lax == m_initState \in {STATE_IMAGE_PREPARED, STATE_SHADER_UPDATED}

\* Mutant of the test: a processed image may be drawn again.
processImage_pre_again == m_initState \in {STATE_SHADER_UPDATED, STATE_IMAGE_PROCESSED}

processImage_pre == m_initState = STATE_SHADER_UPDATED

\* The shader function OCIO generates for a transform, applied to a texel:
\* the identity returns it; Invert negates the colour and keeps alpha.
ShaderFn(transform, col) ==
    IF transform = Invert
       THEN [c \in 1..4 |-> IF c <= 3 THEN Opaque - col[c] ELSE col[c]]
       ELSE col

\* Mutant: the texture is drawn top row first (t runs downwards).
Quad_flipped ==
    {[vertex |-> <<0, 1>>, tex |-> <<0, 0>>],
     [vertex |-> <<0, 0>>, tex |-> <<0, 1>>],
     [vertex |-> <<1, 0>>, tex |-> <<1, 1>>],
     [vertex |-> <<1, 1>>, tex |-> <<1, 0>>]}

\* The quad of glBegin(GL_QUADS) .. glEnd(): the four glTexCoord2f / glVertex2f
\* pairs, the vertices in units of (m_width, m_height).
Quad ==
    {[vertex |-> <<0, 1>>, tex |-> <<0, 1>>],
     [vertex |-> <<0, 0>>, tex |-> <<0, 0>>],
     [vertex |-> <<1, 0>>, tex |-> <<1, 0>>],
     [vertex |-> <<1, 1>>, tex |-> <<1, 1>>]}

TexCoord(vx, vy) == (CHOOSE c \in Quad : c.vertex = <<vx, vy>>).tex

\* The texel row or column sampled at the centre of fragment x of a viewport
\* size fragments wide, on a texture texSize texels wide, when the texture
\* coordinate runs from t0 at the viewport's first edge to t1 at its last:
\* floor(texSize * (t0 + (t1 - t0) * (x + 1/2) / size)), clamped to the
\* texture (GL_CLAMP).  The centre of a fragment falls on the centre of a
\* texel when the sizes agree, where GL_LINEAR returns that texel unmixed.
Sampled(t0, t1, x, size, texSize) ==
    LET i == ((2 * size * t0 + (t1 - t0) * (2 * x + 1)) * texSize) \div (2 * size) IN
    IF i < 0 THEN 0 ELSE IF i > texSize - 1 THEN texSize - 1 ELSE i

\* glViewport(0, 0, width, height) .. glEnd(): every fragment of the viewport
\* is written to the draw buffer of the bound framebuffer (attachment 0, the
\* renderbuffer) with the shader function of the texel it samples.
DrawQuad(g, width, height) ==
    [p \in 1..(width * height) |->
        LET x == (p - 1) % width
            y == (p - 1) \div width
            tx == Sampled(TexCoord(0, 0)[1], TexCoord(1, 0)[1], x, width, g.texImage.w)
            ty == Sampled(TexCoord(0, 0)[2], TexCoord(0, 1)[2], y, height, g.texImage.h)
        IN ShaderFn(g.shader, g.texData[ty * g.texImage.w + tx + 1])]

processImage ==
    /\ CanCall
    /\ IF ~processImage_pre
          THEN /\ exit1(DiagNotUpdated)
               /\ calls' = Append(calls,
                           Call("processImage", NoArgs, m_initState, "abort", DiagNotUpdated))
               /\ UNCHANGED <<apple, gl20, processor, constructed, instSeen, thr, fields, gl, glLog, teardowns>>
          ELSE /\ gl' = [gl EXCEPT !.viewport = [w |-> m_width, h |-> m_height, fmt |-> 0],
                                   !.rboData = DrawQuad(gl, m_width, m_height),
                                   !.draws = @ + 1,
                                   !.swaps = @ + 1]
               /\ m_initState' = STATE_IMAGE_PROCESSED
               /\ calls' = Append(calls,
                           Call("processImage", NoArgs, STATE_IMAGE_PROCESSED, "ok", DiagNone))
               /\ UNCHANGED <<pc, apple, gl20, processor, constructed, instSeen, thr, m_glwin, m_oglBuilder, m_imageTexID,
                              m_format, m_width, m_height, glLog, diag, teardowns>>

\* ------------------------------------------------ GPUManagement::readImage
\* Mutant of the test: the image may be read before it is processed.
readImage_pre_lax == m_initState \in {STATE_SHADER_UPDATED, STATE_IMAGE_PROCESSED}

readImage_pre == m_initState = STATE_IMAGE_PROCESSED

\* The colour attachments of the framebuffer: the renderbuffer at
\* GL_COLOR_ATTACHMENT0, the image texture at GL_COLOR_ATTACHMENT1.
ColorAttachment(g, i) == IF i = 0 THEN g.rboData ELSE g.texData

\* The floats glReadPixels(0, 0, width, height, format, GL_FLOAT, image)
\* writes to image from the read buffer: pixel by pixel, row by row from the
\* bottom row, the first Components(format) components of each pixel.
PixelsRead(buffer, bufWidth, bufHeight, width, height, format) ==
    LET n == Components(format) IN
    [k \in 1..(width * height * n) |->
        LET p == (k - 1) \div n
            c == ((k - 1) % n) + 1
            x == p % width
            y == p \div width
        IN IF x < bufWidth /\ y < bufHeight /\ y * bufWidth + x + 1 <= Len(buffer)
              THEN buffer[y * bufWidth + x + 1][c]
              ELSE Undefined]

\* Mutant: width and height are passed in the wrong order.
glReadPixels_swapped(g, width, height, format) ==
    [g EXCEPT !.readPixels = [w |-> height, h |-> width, fmt |-> format],
              !.pixels = PixelsRead(ColorAttachment(g, 0), g.texImage.w, g.texImage.h,
                                    height, width, format)]

\* glReadBuffer(GL_COLOR_ATTACHMENT0); glReadPixels(0, 0, width, height,
\* format, GL_FLOAT, image): width * height pixels of Components(format)
\* floats each are written to image.
glReadPixels(g, width, height, format) ==
    [g EXCEPT !.readPixels = [w |-> width, h |-> height, fmt |-> format],
              !.pixels = PixelsRead(ColorAttachment(g, 0), g.texImage.w, g.texImage.h,
                                    width, height, format)]

readImage ==
    /\ CanCall
    /\ IF ~readImage_pre
          THEN /\ exit1(DiagNotProcessed)
               /\ calls' = Append(calls,
                           Call("readImage", NoArgs, m_initState, "abort", DiagNotProcessed))
               /\ UNCHANGED <<apple, gl20, processor, constructed, instSeen, thr, fields, gl, glLog, teardowns>>
          ELSE /\ gl' = glReadPixels(gl, m_width, m_height, m_format)
               /\ m_initState' = STATE_IMAGE_READ
               /\ calls' = Append(calls,
                           Call("readImage", NoArgs, STATE_IMAGE_READ, "ok", DiagNone))
               /\ UNCHANGED <<pc, apple, gl20, processor, constructed, instSeen, thr, m_glwin, m_oglBuilder, m_imageTexID,
                              m_format, m_width, m_height, glLog, diag, teardowns>>

\* -------------------------------------------------- GPUManagement::cleanUp
\* glutDestroyWindow(win): the window leaves the live set.
glutDestroyWindow(g, win) ==
    [g EXCEPT !.windows = @ \ {win}, !.destroyed = @ \cup {win}]

\* Mutant: m_oglBuilder.reset() is missing.
cleanUp_keepsBuilder ==
    /\ gl' = glutDestroyWindow(gl, m_glwin)
    /\ glLog' = Append(glLog, "glutDestroyWindow")
    /\ m_initState' = STATE_CREATED
    /\ teardowns' = teardowns + 1
    /\ UNCHANGED <<m_glwin, m_oglBuilder, m_imageTexID, m_format, m_width, m_height>>

\* Mutant: the window is destroyed before the builder is released.
cleanUp_windowFirst ==
    /\ m_oglBuilder' = NullBuilder
    /\ gl' = [glutDestroyWindow(gl, m_glwin) EXCEPT !.programInUse = FALSE]
    /\ glLog' = glLog \o <<"glutDestroyWindow", "m_oglBuilder.reset">>
    /\ m_initState' = STATE_CREATED
    /\ teardowns' = teardowns + 1
    /\ UNCHANGED <<m_glwin, m_imageTexID, m_format, m_width, m_height>>

cleanUp ==
    /\ m_oglBuilder' = NullBuilder
    /\ gl' = [glutDestroyWindow(gl, m_glwin) EXCEPT !.programInUse = FALSE]
    /\ glLog' = glLog \o <<"m_oglBuilder.reset", "glutDestroyWindow">>
    /\ m_initState' = STATE_CREATED
    /\ teardowns' = teardowns + 1
    /\ UNCHANGED <<m_glwin, m_imageTexID, m_format, m_width, m_height>>

\* ------------------------------------------ GPUManagement::~GPUManagement
\* Mutant of the test: the destructor cleans up unconditionally.
dtor_pre_always == TRUE

dtor_pre == m_initState # STATE_CREATED

\* exit() and the return from main destroy the objects of static storage
\* duration: the singleton's destructor runs if the singleton was constructed.
StaticDestruction ==
    /\ pc = "exiting"
    /\ pc' = "exited"
    /\ IF constructed /\ dtor_pre
          THEN cleanUp
          ELSE UNCHANGED <<fields, gl, glLog, teardowns>>
    /\ UNCHANGED <<apple, gl20, processor, constructed, instSeen, thr, diag, calls>>

\* return 0 at the end of main: the process ends without a diagnostic.
mainReturn ==
    /\ pc = "running"
    /\ pc' = "exiting"
    /\ UNCHANGED <<apple, gl20, processor, constructed, instSeen, thr, fields, gl, glLog, diag, teardowns, calls>>

\* ------------------------------------------------------------- inputs
\* The image of the conversion scenario: every pixel 1.0 in its first and its
\* last component and 0.0 in between ({1,0,0,1} with four components).
Solid(width, height, numChannels) ==
    [k \in 1..(width * height * numChannels) |->
        IF (k - 1) % numChannels \in {0, numChannels - 1} THEN Opaque ELSE 0]

\* An image no two floats of which are equal.
Ramp(width, height, numChannels) ==
    [k \in 1..(width * height * numChannels) |-> k]

\* ------------------------------------------------------- specification
\* The pixel values and the transform do not steer the lifecycle: the client
\* of Spec converts the scenario image with the identity.
Next ==
    \/ /\ UNCHANGED drv
       /\ Instance
    \/ /\ UNCHANGED drv
       /\ \E verbose \in BOOLEAN : init(verbose)
    \/ /\ UNCHANGED drv
       /\ \E width \in 1..MaxPixels, height \in 1..MaxPixels, numChannels \in 1..MaxChannels :
              /\ width * height <= MaxPixels
              /\ prepareImage(Solid(width, height, numChannels), width, height, numChannels)
    \/ /\ UNCHANGED drv
       /\ \E fail \in BOOLEAN : getProcessor(fail)
    \/ /\ UNCHANGED drv
       /\ \E legacyShader \in BOOLEAN, gpuinfo \in BOOLEAN, fail \in LibFailures :
              updateGPUShader(Identity, legacyShader, gpuinfo, fail)
    \/ /\ UNCHANGED drv
       /\ processImage
    \/ /\ UNCHANGED drv
       /\ readImage
    \/ /\ UNCHANGED drv
       /\ mainReturn
    \/ /\ UNCHANGED drv
       /\ StaticDestruction

Spec == Init /\ [][Next]_vars

\* ------------------------------------------------------- type invariant
States == STATE_CREATED..STATE_IMAGE_READ

TypeOK ==
    /\ pc \in {"running", "exiting", "exited"}
    /\ apple \in BOOLEAN
    /\ gl20 \in BOOLEAN
    /\ processor \in BOOLEAN
    /\ constructed \in BOOLEAN
    /\ instSeen \in {-1} \cup States
    /\ m_glwin \in 0..1
    /\ m_initState \in States
    /\ m_oglBuilder \in {NullBuilder, Builder}
    /\ m_imageTexID \in 0..1
    /\ m_format \in {0, GL_RGB, GL_RGBA}
    /\ m_width \in 0..MaxPixels
    /\ m_height \in 0..MaxPixels
    /\ teardowns \in 0..1
    /\ Len(calls) <= MaxCalls

\* =================================================================== claims
\* The lifecycle as the specification draws it: the operation that enters each
\* state, in order, and the state each operation requires.
LegalOps == <<"init", "prepareImage", "updateShader", "processImage", "readImage">>

Required(op) == (CHOOSE i \in DOMAIN LegalOps : LegalOps[i] = op) - 1

\* The inputs of a call are valid: 3 or 4 channels, no external-library failure.
ValidCall(c) ==
    CASE c.op = "prepareImage" -> c.args.numChannels \in {3, 4}
      [] c.op = "updateShader" -> c.args.fail = "none"
      [] OTHER -> TRUE

\* The first n calls are the legal sequence, with valid inputs.
InOrder(n) ==
    /\ n <= Len(LegalOps)
    /\ n <= Len(calls)
    /\ \A i \in 1..n : calls[i].op = LegalOps[i] /\ ValidCall(calls[i])

\* A step that makes a call of a public operation.
CallStep == Len(calls') = Len(calls) + 1

\* ---------------------------------------------------------------------- C1
\* C1: when the calls made so far are init, prepareImage, updateShader,
\* processImage, readImage in exactly that order (3 or 4 channels, capability
\* present, no library failure reported), no call has aborted, the n-th call took the
\* lifecycle from state n-1 to state n, and after the fifth the state is
\* ImageRead.
C1_InOrderReachesImageRead ==
    ~CapabilityMissing =>
        \A n \in 1..Len(calls) :
            InOrder(n) =>
                /\ calls[n].result = "ok"
                /\ calls[n].from = n - 1
                /\ calls[n].to = n
                /\ (n = Len(calls) /\ diag # DiagOCIO) =>
                       /\ diag = DiagNone
                       /\ pc # "exited" => m_initState = n

C1_Witness ==
    /\ Len(calls) = 5
    /\ InOrder(5)
    /\ ~CapabilityMissing
    /\ pc = "running"
    /\ m_initState = STATE_IMAGE_READ

\* ---------------------------------------------------------------------- C2
\* C2: the lifecycle state enters Initialized, ImagePrepared, ShaderUpdated,
\* ImageProcessed or ImageRead only in a step that is a call of the operation
\* of that state made in the state just before it; and every call that
\* succeeded was made in the state its operation requires.
C2_TransitionsOnlyFromPredecessor ==
    [][ /\ (m_initState' # m_initState /\ m_initState' # STATE_CREATED) =>
               /\ CallStep
               /\ Last(calls').op = LegalOps[m_initState']
               /\ Last(calls').result = "ok"
               /\ m_initState = m_initState' - 1
        /\ \A i \in DOMAIN calls' :
               calls'[i].result = "ok" => calls'[i].from = Required(calls'[i].op)
      ]_vars

C2_Witness ==
    /\ Len(calls) = 4
    /\ calls[4].op = "processImage"
    /\ calls[4].from = STATE_SHADER_UPDATED
    /\ m_initState = STATE_IMAGE_PROCESSED

\* ---------------------------------------------------------------------- C3
\* The diagnostic each operation writes when it is called in the wrong state.
WrongStateDiag(op) ==
    CASE op = "prepareImage" -> DiagNotInitialized
      [] op = "updateShader" -> DiagNotPrepared
      [] op = "processImage" -> DiagNotUpdated
      [] op = "readImage"    -> DiagNotProcessed
      [] OTHER               -> DiagNone

OutOfOrder(c) == c.from # Required(c.op)

\* C3 as stated: every call of any of the five operations made outside the
\* state the operation requires aborts with a diagnostic; none returns.
C3_EveryOutOfOrderCallAborts ==
    \A i \in DOMAIN calls :
        OutOfOrder(calls[i]) => calls[i].result = "abort" /\ calls[i].diag # DiagNone

\* C3 (amended): every call of prepareImage, updateShader, processImage or
\* readImage made outside the required state aborts: it is the last call of the
\* process, the process is no longer running, and the diagnostic written is the
\* one of that operation's precondition.  A call of init outside Created
\* returns normally without a diagnostic.
C3_OutOfOrderCallAbortsExceptInit ==
    \A i \in DOMAIN calls :
        OutOfOrder(calls[i]) =>
            IF calls[i].op = "init"
               THEN calls[i].result = "noop" /\ calls[i].diag = DiagNone
               ELSE /\ calls[i].result = "abort"
                    /\ calls[i].diag = WrongStateDiag(calls[i].op)
                    /\ calls[i].to = calls[i].from
                    /\ i = Len(calls)
                    /\ pc # "running"
                    /\ diag = calls[i].diag

C3_Witness ==
    /\ Len(calls) = 3
    /\ calls[3].op = "processImage"
    /\ calls[3].from = STATE_IMAGE_PREPARED
    /\ calls[3].result = "abort"
    /\ diag = DiagNotUpdated
    /\ \E j \in DOMAIN calls : calls[j].op = "init" /\ calls[j].result = "ok"

\* ---------------------------------------------------------------------- C4
BadChannels(c) == c.op = "prepareImage" /\ c.args.numChannels \notin {3, 4}

\* C4: a call of prepareImage with a channel count other than 3 or 4, in any
\* state, ends the process; the call creates no texture, framebuffer or
\* renderbuffer and uploads nothing, and leaves the lifecycle state as it was;
\* from then on no step takes the lifecycle state to ImagePrepared.
C4_BadChannelCountAbortsBeforeGraphics ==
    [][ /\ (CallStep /\ BadChannels(Last(calls'))) =>
               /\ Last(calls').result = "abort"
               /\ pc' = "exiting"
               /\ gl' = gl
               /\ glLog' = glLog
               /\ m_imageTexID' = m_imageTexID
               /\ m_initState' = m_initState
        /\ (calls # <<>> /\ BadChannels(Last(calls)) /\ m_initState' # m_initState) =>
               m_initState' # STATE_IMAGE_PREPARED
      ]_vars

C4_Witness ==
    /\ calls # <<>>
    /\ BadChannels(Last(calls))
    /\ Last(calls).from = STATE_INITIALIZED
    /\ Last(calls).args.numChannels = 5
    /\ diag = DiagBadChannels
    /\ gl.textures = {}

\* ---------------------------------------------------------------------- C5
\* C5: a call of a public operation leaves the lifecycle state or moves it to
\* the next state of the order; every call that succeeded moved it by exactly
\* one; the state goes back only in the teardown at process exit; and no
\* operation succeeds twice in a process.
C5_StrictlyLinearNoReentry ==
    [][ /\ CallStep => m_initState' \in {m_initState, m_initState + 1}
        /\ m_initState' < m_initState => (pc = "exiting" /\ pc' = "exited")
        /\ m_initState' > m_initState => m_initState' = m_initState + 1
        /\ \A i \in DOMAIN calls' :
               calls'[i].result = "ok" => calls'[i].to = calls'[i].from + 1
        /\ \A i, j \in DOMAIN calls' :
               (/\ calls'[i].op = calls'[j].op
                /\ calls'[i].result = "ok"
                /\ calls'[j].result = "ok") => i = j
      ]_vars

C5_Witness ==
    /\ Len(calls) = 6
    /\ m_initState = STATE_IMAGE_READ
    /\ \E i \in DOMAIN calls : calls[i].op = "init" /\ calls[i].result = "noop"
    /\ Last(calls).op = "readImage"

\* ---------------------------------------------------------------------- C6
\* C6: in ImageRead a call of init returns without changing anything, a call
\* of any other public operation aborts, and the only step that leaves
\* ImageRead is the teardown at process exit, which goes to Created.
C6_ImageReadIsTerminal ==
    [][ m_initState = STATE_IMAGE_READ =>
            /\ CallStep =>
                   /\ m_initState' = STATE_IMAGE_READ
                   /\ IF Last(calls').op = "init"
                         THEN Last(calls').result = "noop" /\ pc' = "running"
                         ELSE Last(calls').result = "abort" /\ pc' = "exiting"
            /\ m_initState' # STATE_IMAGE_READ =>
                   /\ pc = "exiting"
                   /\ pc' = "exited"
                   /\ teardowns' = teardowns + 1
                   /\ m_initState' = STATE_CREATED
      ]_vars

C6_Witness ==
    /\ m_initState = STATE_IMAGE_READ
    /\ Len(calls) = 6
    /\ Last(calls).from = STATE_IMAGE_READ
    /\ Last(calls).op = "prepareImage"
    /\ pc = "exiting"

\* ---------------------------------------------------------------------- C7
\* C7: a call of init in a state other than Created returns normally and
\* changes nothing: no window is created, the lifecycle state, the window
\* handle, the texture, the format, the dimensions and the shader program
\* wrapper keep their values, no diagnostic is written, the process runs on.
C7_InitOutsideCreatedIsNoOp ==
    [][ (CallStep /\ Last(calls').op = "init" /\ m_initState # STATE_CREATED) =>
            /\ Last(calls').result = "noop"
            /\ pc' = "running"
            /\ UNCHANGED <<fields, gl, glLog, diag, teardowns>>
      ]_vars

C7_Witness ==
    /\ Len(calls) = 4
    /\ calls[4].op = "init"
    /\ calls[4].from = STATE_SHADER_UPDATED
    /\ calls[4].result = "noop"
    /\ m_oglBuilder = Builder
    /\ gl.nWindows = 1

\* ---------------------------------------------------------------------- C8
\* C8: a run of teardown (cleanUp) that starts in a state beyond Created ends
\* with no shader-program wrapper held, the window of the orchestrator
\* destroyed (it was live before) and the lifecycle state Created.
C8_TeardownReleasesAndResets ==
    [][ (teardowns' # teardowns /\ m_initState # STATE_CREATED) =>
            /\ m_oglBuilder' = NullBuilder
            /\ m_glwin \in gl.windows
            /\ m_glwin \notin gl'.windows
            /\ m_glwin \in gl'.destroyed
            /\ m_initState' = STATE_CREATED
      ]_vars

C8_Witness ==
    /\ teardowns = 1
    /\ \E i \in DOMAIN glLog : glLog[i] = "OpenGLBuilder::Create"
    /\ m_oglBuilder = NullBuilder
    /\ gl.destroyed = {m_glwin}
    /\ m_initState = STATE_CREATED

\* ---------------------------------------------------------------------- C9
\* C9: in the step that destroys the constructed singleton (after exit(1) or
\* after the return from main) teardown runs exactly when the lifecycle state
\* is beyond Created; teardown never runs a second time; after the destruction
\* the state is Created.
C9_TeardownAtDestructionIffBeyondCreated ==
    [][ /\ (pc = "exiting" /\ pc' = "exited" /\ constructed) =>
               /\ (teardowns' = teardowns + 1) <=> (m_initState # STATE_CREATED)
               /\ teardowns' \in {teardowns, teardowns + 1}
               /\ m_initState' = STATE_CREATED
        /\ teardowns' <= 1
        /\ teardowns' # teardowns => (pc = "exiting" /\ pc' = "exited")
      ]_vars

C9_Witness ==
    /\ pc = "exited"
    /\ constructed
    /\ teardowns = 1
    /\ diag = DiagNotUpdated
    /\ m_initState = STATE_CREATED

\* --------------------------------------------------------------------- C10
\* C10 as stated: a window exists only while the lifecycle state is beyond
\* Created, and once the process has exited (the singleton destructed) every
\* window init created has been destroyed.
C10_ContextDestroyedOnEveryExit ==
    /\ gl.windows # {} => m_initState # STATE_CREATED
    /\ pc = "exited" => gl.windows = {}

\* --------------------------------------------------------------------- C11
InitFromCreated == CallStep /\ Last(calls').op = "init" /\ m_initState = STATE_CREATED

Prepared == {i \in DOMAIN calls : calls[i].op = "prepareImage" /\ calls[i].result = "ok"}

\* C12: m_width and m_height change only in a call of prepareImage; once the
\* state is ImagePrepared or later they are the width and height given to the
\* prepareImage call that got there, and they are the width and height
\* readImage reads back with.
C12_DimensionsFixedOncePrepared ==
    [][ /\ (m_width' # m_width \/ m_height' # m_height) =>
               (CallStep /\ Last(calls').op = "prepareImage")
        /\ m_initState >= STATE_IMAGE_PREPARED =>
               /\ Prepared # {}
               /\ \A i \in Prepared : /\ m_width = calls[i].args.width
                                      /\ m_height = calls[i].args.height
        /\ gl'.readPixels # gl.readPixels =>
               /\ Last(calls').op = "readImage"
               /\ \A i \in Prepared : /\ gl'.readPixels.w = calls[i].args.width
                                      /\ gl'.readPixels.h = calls[i].args.height
      ]_vars

C12_Witness ==
    /\ m_initState = STATE_IMAGE_READ
    /\ gl.readPixels.w = 1
    /\ gl.readPixels.h = 2
    /\ \E i \in Prepared : calls[i].args.width = 1 /\ calls[i].args.height = 2

\* --------------------------------------------------------------------- C13
\* The number of floats the last glReadPixels wrote to the destination.
FloatsRead == gl.readPixels.w * gl.readPixels.h * Components(gl.readPixels.fmt)

\* C13: once readImage has read back, the number of floats it transferred is
\* width * height * channelCount of the prepareImage call that prepared the
\* image; and in every state from ImagePrepared on the stored format is the
\* 3-channel or the 4-channel one, the one of that call's channel count.
C13_ReadTransfersWidthHeightChannels ==
    /\ gl.readPixels # NoImage =>
           /\ Prepared # {}
           /\ \A i \in Prepared :
                  FloatsRead = calls[i].args.width * calls[i].args.height
                                   * calls[i].args.numChannels
    /\ m_initState >= STATE_IMAGE_PREPARED =>
           /\ m_format \in {GL_RGB, GL_RGBA}
           /\ \A i \in Prepared : Components(m_format) = calls[i].args.numChannels

C13_Witness ==
    /\ m_initState = STATE_IMAGE_READ
    /\ FloatsRead = 6
    /\ m_format = GL_RGB
    /\ \E i \in Prepared : calls[i].args.numChannels = 3

\* --------------------------------------------------------------------- C16
\* C16: a call of prepareImage, updateShader, processImage or readImage made
\* outside the state it requires writes the diagnostic of that requirement
\* (not initialized / image not prepared / shader not updated / image not
\* processed) and ends the process without having issued any graphics call:
\* nothing is created, uploaded, drawn, swapped or read.  In particular
\* processImage called right after prepareImage writes "GPU shader has not
\* been updated." and draws nothing.
C16_AbortDiagnosticBeforeGraphics ==
    [][ (CallStep /\ Last(calls').op # "init" /\ OutOfOrder(Last(calls'))) =>
            /\ Last(calls').result = "abort"
            /\ diag' = WrongStateDiag(Last(calls').op)
            /\ pc' = "exiting"
            /\ gl' = gl
            /\ glLog' = glLog
            /\ (Last(calls').op = "processImage" /\ m_initState = STATE_IMAGE_PREPARED) =>
                   diag' = "GPU shader has not been updated."
      ]_vars

C16_Witness ==
    /\ Len(calls) = 3
    /\ calls[2].op = "prepareImage"
    /\ calls[2].result = "ok"
    /\ calls[2].args.numChannels = 4
    /\ calls[3].op = "processImage"
    /\ calls[3].result = "abort"
    /\ diag = "GPU shader has not been updated."
    /\ gl.draws = 0
    /\ gl.swaps = 0

\* --------------------------------------------------------------------- C17
\* The positions of a resource call in the log of resource calls.
At(name) == {i \in DOMAIN glLog : glLog[i] = name}

Precedes(a, b) == \A i \in At(a), j \in At(b) : i < j

\* C17: the window is created before the input texture and the texture before
\* the shader-program wrapper; teardown releases the wrapper before it
\* destroys the window, every destruction of the window is preceded by a
\* release of the wrapper, and no window has been destroyed while a wrapper
\* is held.
C17_TeardownOrderMirrorsCreation ==
    /\ Precedes("glutCreateWindow", "glGenTextures")
    /\ Precedes("glGenTextures", "OpenGLBuilder::Create")
    /\ Precedes("OpenGLBuilder::Create", "m_oglBuilder.reset")
    /\ Precedes("m_oglBuilder.reset", "glutDestroyWindow")
    /\ \A j \in At("glutDestroyWindow") : \E i \in At("m_oglBuilder.reset") : i < j
    /\ gl.destroyed # {} => m_oglBuilder = NullBuilder

C17_Witness ==
    glLog = <<"glutCreateWindow", "glGenTextures", "OpenGLBuilder::Create",
              "m_oglBuilder.reset", "glutDestroyWindow">>

\* --------------------------------------------------------------------- C14
\* C14: when the library throws (while the processor is constructed, or in
\* updateShader while the shader description is extracted or the program is
\* built) the failure is reported and the process ends: the step that reports
\* it leaves the lifecycle state as it was and ends the process, a throwing
\* updateShader is the last call, and from then on the state never becomes
\* ShaderUpdated, nothing is drawn and nothing is read back.
C14_LibraryFailureIsFatal ==
    [][ /\ (diag' = DiagOCIO /\ diag # DiagOCIO) =>
               /\ pc' = "exiting"
               /\ m_initState' = m_initState
               /\ gl'.draws = gl.draws
               /\ gl'.readPixels = gl.readPixels
        /\ (/\ CallStep
            /\ Last(calls').op = "updateShader"
            /\ m_initState = STATE_IMAGE_PREPARED
            /\ Last(calls').args.fail # "none") =>
               /\ Last(calls').result = "throw"
               /\ diag' = DiagOCIO
        /\ diag = DiagOCIO =>
               /\ ~CallStep
               /\ pc' # "running"
               /\ m_initState' # STATE_SHADER_UPDATED
               /\ gl'.draws = gl.draws
               /\ gl'.readPixels = gl.readPixels
      ]_vars

C14_Witness ==
    /\ Len(calls) = 3
    /\ calls[3].op = "updateShader"
    /\ calls[3].args.fail = "build"
    /\ calls[3].result = "throw"
    /\ diag = DiagOCIO
    /\ pc = "exited"
    /\ teardowns = 1
    /\ gl.draws = 0

\* --------------------------------------------------------------------- C15
\* C15: the step that writes a failure diagnostic ends the process; once a
\* failure diagnostic is written no public operation is called and no
\* processor is obtained, the process never runs again, and the only step
\* that changes anything is the static destruction at exit.
C15_NothingFollowsAFatalFailure ==
    [][ /\ (diag' # DiagNone /\ diag = DiagNone) => pc' = "exiting"
        /\ diag # DiagNone =>
               /\ ~CallStep
               /\ calls' = calls
               /\ processor' = processor
               /\ diag' = diag
               /\ pc # "running"
               /\ pc = "exiting" /\ pc' = "exited"
               /\ <<m_initState', gl'>> # <<m_initState, gl>> => teardowns' = teardowns + 1
      ]_vars

C15_Witness ==
    /\ Len(calls) = 2
    /\ calls[2].op = "prepareImage"
    /\ diag = DiagBadChannels
    /\ pc = "exited"
    /\ teardowns = 1

\* --------------------------------------------------------------------- C18
\* C18: the object is constructed by the first Instance() call, in state
\* Created, and never again; an Instance() call on the constructed object
\* changes none of its members and returns the object in the lifecycle state
\* reached through the earlier references; no public operation is called before
\* the object exists; and while the process runs the members change only in
\* calls of the public operations.
C18_SingleInstance ==
    [][ /\ constructed => constructed'
        /\ (~constructed /\ constructed') =>
               /\ m_initState' = STATE_CREATED
               /\ instSeen' = STATE_CREATED
               /\ calls = <<>>
        /\ (constructed /\ instSeen' # instSeen) =>
               /\ instSeen' = m_initState
               /\ UNCHANGED fields
        /\ CallStep => constructed
        /\ (pc' = "running" /\ ~CallStep) => UNCHANGED fields
      ]_vars

C18_Witness ==
    /\ pc = "running"
    /\ Len(calls) = 2
    /\ m_initState = STATE_IMAGE_PREPARED
    /\ instSeen = STATE_IMAGE_PREPARED

\* ---------------------------------------------------------------------- C19
\* Images are at most MaxSide pixels wide and high in the conversions below.
MaxSide == 2

\* The images a conversion is tried on.
Images(width, height, numChannels) ==
    {Solid(width, height, numChannels), Ramp(width, height, numChannels)}

\* The conversions: one image of any shape and channel count, of either kind,
\* through the shader of either transform.  The singleton is obtained and
\* initialised once; the other operations are called in any state.
RoundNext ==
    \/ /\ UNCHANGED drv
       /\ ~constructed /\ Instance
    \/ /\ UNCHANGED drv
       /\ init_pre /\ \E verbose \in BOOLEAN : init(verbose)
    \/ /\ UNCHANGED drv
       /\ \E width \in 1..MaxSide, height \in 1..MaxSide, numChannels \in 1..MaxChannels :
              \E data \in Images(width, height, numChannels) :
                  prepareImage(data, width, height, numChannels)
    \/ /\ UNCHANGED drv
       /\ \E fail \in BOOLEAN : getProcessor(fail)
    \/ /\ UNCHANGED drv
       /\ \E transform \in Transforms, legacyShader \in BOOLEAN, gpuinfo \in BOOLEAN :
              updateGPUShader(transform, legacyShader, gpuinfo, "none")
    \/ /\ UNCHANGED drv
       /\ processImage
    \/ /\ UNCHANGED drv
       /\ readImage
    \/ /\ UNCHANGED drv
       /\ mainReturn
    \/ /\ UNCHANGED drv
       /\ StaticDestruction

RoundSpec == Init /\ [][RoundNext]_vars

\* C19: once readImage has read back an image drawn through the shader of the
\* identity transform, the destination buffer holds the floats of the buffer
\* given to prepareImage, float by float in the same order (pixel by pixel,
\* row by row, numChannels floats per pixel), and the rectangle read is the
\* width and height given to prepareImage.  (Values are copied, never
\* computed with, so they agree exactly, which is within any tolerance.)
C19_IdentityRoundTrip ==
    (gl.readPixels # NoImage /\ gl.shader = Identity) =>
        \A i \in Prepared :
            /\ gl.pixels = calls[i].args.data
            /\ Len(gl.pixels) = calls[i].args.width * calls[i].args.height
                                    * calls[i].args.numChannels
            /\ gl.readPixels.w = calls[i].args.width
            /\ gl.readPixels.h = calls[i].args.height

\* The 2x2 image of four channels, {1,0,0,1} in every pixel, read back
\* unchanged.
C19_Witness ==
    /\ m_initState = STATE_IMAGE_READ
    /\ gl.shader = Identity
    /\ \E i \in Prepared :
          /\ calls[i].args.width = 2 /\ calls[i].args.height = 2
          /\ calls[i].args.numChannels = 4
          /\ calls[i].args.data = <<10, 0, 0, 10, 10, 0, 0, 10, 10, 0, 0, 10, 10, 0, 0, 10>>
          /\ gl.pixels = calls[i].args.data

\* ---------------------------------------------------------------------- C20
\* The orchestrator shared by two callers.  The class holds no mutex and no
\* atomic: the test of m_initState at the top of an operation, the operation's
\* body and the assignment of m_initState at its end are separate statements,
\* modelled here as separate steps of the caller.  With two threads the
\* accesses to m_initState are unsynchronised; a read then yields the value
\* before or after a concurrent write, which is what interleaving the steps
\* gives.

\* The client starts its second thread.
SpawnThread ==
    /\ pc = "running"
    /\ ~thr.threaded
    /\ \A t \in Threads : thr.loc[t] = "idle"
    /\ thr' = [thr EXCEPT !.threaded = TRUE]
    /\ UNCHANGED <<pc, apple, gl20, processor, constructed, instSeen, fields, gl, glLog,
                   diag, teardowns, calls>>

NoneInCall == \A t \in Threads : thr.loc[t] = "idle"

\* Caller t may begin a call: it is not inside one, and when the callers are
\* not threads no other caller is inside one either.
CanBegin(t) ==
    /\ pc = "running"
    /\ constructed
    /\ thr.loc[t] = "idle"
    /\ thr.threaded \/ NoneInCall
    /\ Len(calls) + Cardinality({u \in Threads : thr.loc[u] # "idle"}) < MaxCalls

\* The record of a call of caller t that began in the state thr.from[t].
CallOf(t, op, to, result, d) ==
    [op |-> op, args |-> thr.args[t], from |-> thr.from[t], to |-> to,
     result |-> result, diag |-> d]

\* prepareImage, lines 140-144: the test of the state.
prepareImage_check(t, data, width, height, numChannels) ==
    /\ CanBegin(t)
    /\ LET a == [NoArgs EXCEPT !.data = data, !.width = width, !.height = height,
                               !.numChannels = numChannels] IN
       IF ~prepareImage_pre
          THEN /\ exit1(DiagNotInitialized)
               /\ calls' = Append(calls,
                           Call("prepareImage", a, m_initState, "abort", DiagNotInitialized))
               /\ UNCHANGED thr
          ELSE /\ thr' = [thr EXCEPT !.loc[t] = "prepareImage:body",
                                     !.from[t] = m_initState,
                                     !.args[t] = a]
               /\ UNCHANGED <<pc, diag, calls>>
    /\ UNCHANGED <<apple, gl20, processor, constructed, instSeen, fields, gl, glLog, teardowns>>

\* prepareImage, lines 146-196: the dimensions, the format, the texture and
\* the framebuffer.
prepareImage_body(t) ==
    /\ pc = "running"
    /\ thr.loc[t] = "prepareImage:body"
    /\ LET a == thr.args[t] IN
       /\ m_width' = a.width
       /\ m_height' = a.height
       /\ IF FormatOf(a.numChannels) = 0
             THEN /\ exit1(DiagBadChannels)
                  /\ calls' = Append(calls,
                              CallOf(t, "prepareImage", m_initState, "abort", DiagBadChannels))
                  /\ UNCHANGED <<m_format, m_imageTexID, gl, glLog, thr>>
             ELSE /\ m_format' = FormatOf(a.numChannels)
                  /\ m_imageTexID' = Cardinality(gl.textures) + 1
                  /\ gl' = UploadImage(gl, a.data, a.width, a.height, FormatOf(a.numChannels))
                  /\ glLog' = Append(glLog, "glGenTextures")
                  /\ thr' = [thr EXCEPT !.loc[t] = "prepareImage:update"]
                  /\ UNCHANGED <<pc, diag, calls>>
    /\ UNCHANGED <<apple, gl20, processor, constructed, instSeen, m_glwin, m_initState,
                   m_oglBuilder, teardowns>>

\* prepareImage, line 198: m_initState = STATE_IMAGE_PREPARED, and the return.
prepareImage_update(t) ==
    /\ pc = "running"
    /\ thr.loc[t] = "prepareImage:update"
    /\ m_initState' = STATE_IMAGE_PREPARED
    /\ calls' = Append(calls, CallOf(t, "prepareImage", STATE_IMAGE_PREPARED, "ok", DiagNone))
    /\ thr' = [thr EXCEPT !.loc[t] = "idle"]
    /\ UNCHANGED <<pc, apple, gl20, processor, constructed, instSeen, m_glwin, m_oglBuilder,
                   m_imageTexID, m_format, m_width, m_height, gl, glLog, diag, teardowns>>

\* processImage, lines 256-260: the test of the state.
processImage_check(t) ==
    /\ CanBegin(t)
    /\ IF ~processImage_pre
          THEN /\ exit1(DiagNotUpdated)
               /\ calls' = Append(calls,
                           Call("processImage", NoArgs, m_initState, "abort", DiagNotUpdated))
               /\ UNCHANGED thr
          ELSE /\ thr' = [thr EXCEPT !.loc[t] = "processImage:body",
                                     !.from[t] = m_initState,
                                     !.args[t] = NoArgs]
               /\ UNCHANGED <<pc, diag, calls>>
    /\ UNCHANGED <<apple, gl20, processor, constructed, instSeen, fields, gl, glLog, teardowns>>

\* processImage, lines 262-290: the viewport, the quad, glutSwapBuffers.
processImage_body(t) ==
    /\ pc = "running"
    /\ thr.loc[t] = "processImage:body"
    /\ gl' = [gl EXCEPT !.viewport = [w |-> m_width, h |-> m_height, fmt |-> 0],
                        !.rboData = DrawQuad(gl, m_width, m_height),
                        !.draws = @ + 1,
                        !.swaps = @ + 1]
    /\ thr' = [thr EXCEPT !.loc[t] = "processImage:update"]
    /\ UNCHANGED <<pc, apple, gl20, processor, constructed, instSeen, fields, glLog, diag,
                   teardowns, calls>>

\* processImage, line 292: m_initState = STATE_IMAGE_PROCESSED, and the return.
processImage_update(t) ==
    /\ pc = "running"
    /\ thr.loc[t] = "processImage:update"
    /\ m_initState' = STATE_IMAGE_PROCESSED
    /\ calls' = Append(calls, CallOf(t, "processImage", STATE_IMAGE_PROCESSED, "ok", DiagNone))
    /\ thr' = [thr EXCEPT !.loc[t] = "idle"]
    /\ UNCHANGED <<pc, apple, gl20, processor, constructed, instSeen, m_glwin, m_oglBuilder,
                   m_imageTexID, m_format, m_width, m_height, gl, glLog, diag, teardowns>>

\* The two-caller client: prepareImage and processImage are called by either
\* caller, statement group by statement group, on images one row high; the
\* operations around them are called once each, in the state they require and
\* while no caller is inside a call.
ConcNext ==
    \/ /\ UNCHANGED drv
       /\ ~constructed /\ Instance
    \/ /\ UNCHANGED drv
       /\ SpawnThread
    \/ /\ UNCHANGED drv
       /\ NoneInCall /\ init_pre /\ \E verbose \in BOOLEAN : init(verbose)
    \/ /\ UNCHANGED drv
       /\ \E t \in Threads, width \in 1..MaxPixels, numChannels \in 1..MaxChannels :
              prepareImage_check(t, Solid(width, 1, numChannels), width, 1, numChannels)
    \/ /\ UNCHANGED drv
       /\ \E t \in Threads : prepareImage_body(t)
    \/ /\ UNCHANGED drv
       /\ \E t \in Threads : prepareImage_update(t)
    \/ /\ UNCHANGED drv
       /\ getProcessor(FALSE)
    \/ /\ UNCHANGED drv
       /\ NoneInCall /\ \E legacyShader \in BOOLEAN, gpuinfo \in BOOLEAN :
              updateGPUShader(Identity, legacyShader, gpuinfo, "none")
    \/ /\ UNCHANGED drv
       /\ \E t \in Threads : processImage_check(t)
    \/ /\ UNCHANGED drv
       /\ \E t \in Threads : processImage_body(t)
    \/ /\ UNCHANGED drv
       /\ \E t \in Threads : processImage_update(t)
    \/ /\ UNCHANGED drv
       /\ StaticDestruction

ConcSpec == Init /\ [][ConcNext]_vars

\* The body of prepareImage (a texture and a framebuffer generated) or of
\* processImage (a quad drawn) has been executed twice though no call aborted.
BodyRanTwice == gl.fbos >= 2 \/ gl.draws >= 2

\* C20: while each call completes before the next is issued (one thread), the
\* body of prepareImage and the body of processImage are executed at most
\* once, the second call of either being stopped by its test; and in any
\* case a caller is inside a body only after the test passed in the state it
\* read.  With two threads the test and the assignment of the state are
\* separate steps, and C20_Witness is the state the single-threaded use
\* cannot reach: both callers passed the test and both executed the body,
\* neither aborting.
C20_BodyOnceWhenSingleThreaded ==
    /\ ~thr.threaded => ~BodyRanTwice
    /\ \A t \in Threads :
          /\ thr.loc[t] \in {"prepareImage:body", "prepareImage:update"} =>
                 thr.from[t] = STATE_INITIALIZED
          /\ thr.loc[t] \in {"processImage:body", "processImage:update"} =>
                 thr.from[t] = STATE_SHADER_UPDATED

C20_Witness ==
    /\ thr.threaded
    /\ pc = "running"
    /\ diag = DiagNone
    /\ gl.draws = 2
    /\ \A t \in Threads : thr.loc[t] = "idle"
    /\ \A i \in 1..Len(calls) : calls[i].result # "abort"
    /\ \E i, j \in 1..Len(calls) :
          /\ i < j
          /\ calls[i].op = "processImage" /\ calls[j].op = "processImage"
          /\ calls[i].from = STATE_SHADER_UPDATED /\ calls[j].from = STATE_SHADER_UPDATED
          /\ calls[i].result = "ok" /\ calls[j].result = "ok"

\* ---------------------------------------------------------------------- C22
\* C22: in every reachable state, if the lifecycle state is ShaderUpdated,
\* ImageProcessed or ImageRead then m_oglBuilder holds the program wrapper,
\* and if it is Created or Initialized then m_oglBuilder is null.
C22_BuilderHeldExactlyInLateStates ==
    /\ m_initState \in {STATE_SHADER_UPDATED, STATE_IMAGE_PROCESSED, STATE_IMAGE_READ} =>
           m_oglBuilder = Builder
    /\ m_initState \in {STATE_CREATED, STATE_INITIALIZED} =>
           m_oglBuilder = NullBuilder

\* The wrapper was held in ImageProcessed, and the teardown at exit has
\* released it on the way back to Created.
C22_Witness ==
    /\ pc = "exited"
    /\ teardowns = 1
    /\ m_initState = STATE_CREATED
    /\ m_oglBuilder = NullBuilder
    /\ \E i \in DOMAIN calls :
          /\ calls[i].op = "processImage" /\ calls[i].result = "ok"
          /\ calls[i].from = STATE_SHADER_UPDATED

\* ---------------------------------------------------------------------- C23
\* C23: a call of prepareImage that aborts (wrong state, or unsupported
\* channel count) leaves m_initState, m_width, m_height, m_format and
\* m_imageTexID as they were before the call.
C23_AbortedPrepareImageChangesNothing ==
    [][ (CallStep /\ Last(calls').op = "prepareImage" /\ Last(calls').result = "abort") =>
            UNCHANGED <<m_initState, m_width, m_height, m_format, m_imageTexID>>
      ]_vars

\* ================================================================ the driver
\* main(), phase by phase.  A phase that ends in exit(1) writes its
\* diagnostic and leaves the process exiting, as the orchestrator's aborts do.
DiagUsage == "ERROR: Expecting N arguments, found M"
DiagLoad == "ERROR: Could not load image"
DiagCropGPU == "ERROR: Crop disabled in GPU mode"
DiagChannels == "ERROR: --ch: should be comma-seperated integers"
DiagImageType == "ERROR: Unsupported image type"
DiagAttribute == "ERROR: Attribute string should be in the form name=value"
DiagWrite == "ERROR: Writing file"
\* No diagnostic of the program: the process was killed by an access outside
\* a buffer.
DiagCrash == "<killed by signal>"

\* A step of main that calls no operation of the orchestrator.
MainOnly ==
    UNCHANGED <<apple, gl20, processor, constructed, instSeen, fields, gl, glLog,
                teardowns, calls, thr>>

At_(loc) == pc = "running" /\ drv.loc = loc

\* ap.parse and the checks of the argument count (main.cpp:363-446), the
\* configuration banner of --v (448-476).
ParseArgs(usegpu, usegpuLegacy, croptofull, ok) ==
    /\ At_("start")
    /\ IF ok
          THEN /\ drv' = [drv EXCEPT !.loc = "load", !.usegpu = usegpu,
                                     !.usegpuLegacy = usegpuLegacy,
                                     !.croptofull = croptofull]
               /\ UNCHANGED <<pc, diag>>
          ELSE exit1(DiagUsage) /\ UNCHANGED drv
    /\ MainOnly

\* The pixel formats of an image file.  The crop loop copies FLOAT, HALF,
\* UINT16 and UINT8 elements with one and the same index pair, so FLOAT stands
\* for the four; UINT32 is a format the loop refuses.
Formats == {"FLOAT", "UINT32"}

\* Mutant of LoadImage: --croptofull is not refused in GPU mode.
LoadImage_cropAllowed(spec, format, ok) ==
    /\ At_("load")
    /\ IF ~ok
          THEN exit1(DiagLoad) /\ UNCHANGED drv
          ELSE /\ drv' = [drv EXCEPT
                            !.loc = "crop",
                            !.spec = [spec EXCEPT !.format =
                                         IF drv.usegpu \/ drv.usegpuLegacy
                                            THEN "FLOAT" ELSE format],
                            !.imgwidth = spec.width,
                            !.imgheight = spec.height,
                            !.components = spec.nchannels]
               /\ UNCHANGED <<pc, diag>>
    /\ MainOnly

\* Load the image (main.cpp:500-562): create, open, read; in GPU mode the
\* image is read as FLOAT and --croptofull is refused after the read.
\* ok = FALSE: create, open or read_image failed, or OIIO threw.
LoadImage(spec, format, ok) ==
    /\ At_("load")
    /\ IF ~ok
          THEN exit1(DiagLoad) /\ UNCHANGED drv
          ELSE IF (drv.usegpu \/ drv.usegpuLegacy) /\ drv.croptofull
          THEN /\ exit1(DiagCropGPU)
               /\ drv' = [drv EXCEPT !.spec = [spec EXCEPT !.format = "FLOAT"],
                                     !.imgwidth = spec.width,
                                     !.imgheight = spec.height,
                                     !.components = spec.nchannels]
          ELSE /\ drv' = [drv EXCEPT
                            !.loc = "crop",
                            !.spec = [spec EXCEPT !.format =
                                         IF drv.usegpu \/ drv.usegpuLegacy
                                            THEN "FLOAT" ELSE format],
                            !.imgwidth = spec.width,
                            !.imgheight = spec.height,
                            !.components = spec.nchannels]
               /\ UNCHANGED <<pc, diag>>
    /\ MainOnly

\* kchannels when --ch gave no list: every channel, in order.
AllChannels(components) == [k \in 1..components |-> k - 1]

\* The accesses of the crop loop (main.cpp:618-659): for every pixel (x, y) of
\* the data window and every kept channel k whose pixel falls inside the
\* imgwidth x imgheight region, one float is read at imgIdx and written at
\* cropIdx.
CropAccesses(spec, imgwidth, imgheight, components, kchannels) ==
    LET K == Len(kchannels) IN
    { [k |-> k,
       pixel |-> (y + spec.y) * imgwidth + (x + spec.x),
       imgIdx |-> (y * spec.width * components) + (x * components) + kchannels[k + 1],
       cropIdx |-> ((y + spec.y) * imgwidth * K) + ((x + spec.x) * K) + kchannels[k + 1]] :
      <<x, y, k>> \in
        { c \in (0..(spec.width - 1)) \X (0..(spec.height - 1)) \X (0..(K - 1)) :
            /\ c[2] + spec.y >= 0
            /\ c[1] + spec.x >= 0
            /\ c[2] + spec.y < imgheight
            /\ c[1] + spec.x < imgwidth } }

\* An access of the loop falls outside the buffer it indexes: the source
\* buffer of height * width * components elements, or the cropped buffer of
\* imgheight * imgwidth * kchannels.size() elements.
OutOfBounds(a, spec, imgwidth, imgheight, components, K) ==
    \/ a.imgIdx < 0 \/ a.imgIdx >= spec.height * spec.width * components
    \/ a.cropIdx < 0 \/ a.cropIdx >= imgheight * imgwidth * K

\* --ch and the crop (main.cpp:564-664).  given: --ch was passed; kch: the
\* integers StringToVector found in it.  An access outside a buffer is
\* undefined behaviour: the process goes on with what the loop produced, or
\* it is killed (killed = TRUE).
CropChannels(given, kch, killed) ==
    /\ At_("crop")
    /\ given \/ kch = <<>>
    /\ LET kchannels == IF kch = <<>> THEN AllChannels(drv.components) ELSE kch
           K == Len(kchannels)
           w == IF drv.croptofull THEN drv.spec.full_width ELSE drv.imgwidth
           h == IF drv.croptofull THEN drv.spec.full_height ELSE drv.imgheight
           acc == CropAccesses(drv.spec, w, h, drv.components, kchannels)
           oob == \E a \in acc : OutOfBounds(a, drv.spec, w, h, drv.components, K)
       IN
       IF given /\ kch = <<>>
          THEN ~killed /\ exit1(DiagChannels) /\ UNCHANGED drv
          ELSE IF ~(drv.croptofull \/ K < drv.spec.nchannels)
          THEN /\ ~killed
               /\ drv' = [drv EXCEPT !.loc = "initgpu", !.kept = K]
               /\ UNCHANGED <<pc, diag>>
          ELSE IF acc # {} /\ drv.spec.format = "UINT32"
          THEN /\ ~killed
               /\ exit1(DiagImageType)
               /\ drv' = [drv EXCEPT !.imgwidth = w, !.imgheight = h, !.kept = K]
          ELSE /\ killed => oob
               /\ drv' = [drv EXCEPT !.loc = "initgpu", !.imgwidth = w, !.imgheight = h,
                                     !.kept = K, !.crop = acc, !.cropped = TRUE,
                                     !.components = K]
               /\ IF killed
                     THEN pc' = "exited" /\ diag' = DiagCrash
                     ELSE UNCHANGED <<pc, diag>>
    /\ MainOnly

\* ---------------------------------------------------------------------- C26
\* At most MaxKeep channels are listed in --ch.
MaxKeep == 2

\* The image files: any data window of at most MaxPixels pixels, placed at an
\* offset of at most one pixel either way inside a full region of at most
\* MaxPixels pixels.
ImageSpecs ==
    { [width |-> w, height |-> h, nchannels |-> n, x |-> x, y |-> y,
       full_width |-> fw, full_height |-> fh, format |-> "NONE"] :
      w \in 1..MaxPixels, h \in 1..MaxPixels, n \in 1..MaxChannels,
      x \in -1..1, y \in -1..1, fw \in 1..MaxPixels, fh \in 1..MaxPixels }

\* The channel lists of --ch: up to MaxKeep channel numbers.
KeepLists ==
    UNION { [1..n -> 0..(MaxChannels - 1)] : n \in 0..MaxKeep }

\* main up to the end of the crop, on every image file and channel list (the
\* full region matters with --croptofull only).
CropNext ==
    \/ /\ \E usegpu \in BOOLEAN, usegpuLegacy \in BOOLEAN, croptofull \in BOOLEAN,
             ok \in BOOLEAN :
              ParseArgs(usegpu, usegpuLegacy, croptofull, ok)
    \/ /\ At_("load")
       /\ \E spec \in ImageSpecs, format \in Formats, ok \in BOOLEAN :
              /\ spec.width * spec.height <= MaxPixels
              /\ spec.full_width * spec.full_height <= MaxPixels
              /\ drv.croptofull
                    \/ (spec.full_width = spec.width /\ spec.full_height = spec.height)
              /\ LoadImage(spec, format, ok)
    \/ /\ At_("crop")
       /\ \E given \in BOOLEAN, kch \in KeepLists, killed \in BOOLEAN :
              CropChannels(given, kch, killed)
    \/ /\ UNCHANGED drv
       /\ StaticDestruction

CropSpec == Init /\ [][CropNext]_vars

\* C26: after the crop loop, every access it made read the source buffer at an
\* index below height * width * components and wrote the cropped buffer at an
\* index below imgheight * imgwidth * (number of kept channels), and the k-th
\* kept channel of a pixel was written to slot k of that pixel.
C26_CropAccessesInBounds ==
    \A a \in drv.crop :
        /\ a.imgIdx >= 0
        /\ a.imgIdx < drv.spec.height * drv.spec.width * drv.spec.nchannels
        /\ a.cropIdx >= 0
        /\ a.cropIdx < drv.imgheight * drv.imgwidth * drv.kept
        /\ a.cropIdx = a.pixel * drv.kept + a.k

\* ------------------------------------------------- the driver, after the crop
\* if (usegpu || usegpuLegacy)
\* Mutant: the test is missing, the GPU blocks run in every mode.
GPUMode_always == TRUE

GPUMode == drv.usegpu \/ drv.usegpuLegacy

\* main moves on to loc unless the call it made ended the process.
Advance(loc) == drv' = IF pc' = "running" THEN [drv EXCEPT !.loc = loc] ELSE drv

\* Initialize GPU (main.cpp:672-678): Instance(), init, prepareImage with the
\* buffer, width, height and channel count left by the load and the crop.
InitializeGPU_Instance ==
    /\ At_("initgpu")
    /\ GPUMode
    /\ Instance
    /\ Advance("init")

InitializeGPU_init(verbose) ==
    /\ At_("init")
    /\ init(verbose)
    /\ Advance("prepare")

InitializeGPU_prepareImage ==
    /\ At_("prepare")
    /\ prepareImage(Solid(drv.imgwidth, drv.imgheight, drv.components),
                    drv.imgwidth, drv.imgheight, drv.components)
    /\ Advance("processor")

\* GetCurrentConfig and config->getProcessor (main.cpp:683-722); in CPU mode
\* the block of Initialize GPU is skipped.
GetProcessor(fail) ==
    /\ \/ At_("processor")
       \/ At_("initgpu") /\ ~GPUMode
    /\ getProcessor(fail)
    /\ Advance("process")

\* GPU processing (main.cpp:724-735): Instance(), updateGPUShader,
\* processImage, readImage.
ProcessGPU_Instance ==
    /\ At_("process")
    /\ GPUMode
    /\ Instance
    /\ Advance("update")

\* Mutant: the driver does not build the shader before it draws.
ProcessGPU_updateGPUShader_skipped(transform, gpuinfo, fail) ==
    /\ At_("update")
    /\ drv' = [drv EXCEPT !.loc = "draw"]
    /\ UNCHANGED <<pc, diag>>
    /\ MainOnly

ProcessGPU_updateGPUShader(transform, gpuinfo, fail) ==
    /\ At_("update")
    /\ updateGPUShader(transform, drv.usegpuLegacy, gpuinfo, fail)
    /\ Advance("draw")

ProcessGPU_processImage ==
    /\ At_("draw")
    /\ processImage
    /\ Advance("read")

ProcessGPU_readImage ==
    /\ At_("read")
    /\ readImage
    /\ drv' = IF pc' = "running"
                 THEN [drv EXCEPT !.loc = "attrs", !.processed = TRUE]
                 ELSE drv

\* CPU processing (main.cpp:736-762): getOptimizedCPUProcessor and apply; an
\* exception of the library is caught at 764-773.
ProcessCPU(fail) ==
    /\ At_("process")
    /\ ~GPUMode
    /\ IF fail
          THEN exit1(DiagOCIO) /\ UNCHANGED drv
          ELSE /\ drv' = [drv EXCEPT !.loc = "attrs", !.processed = TRUE]
               /\ UNCHANGED <<pc, diag>>
    /\ MainOnly

\* The attribute strings the three loops examine (main.cpp:779-823): each
\* loop goes on to the next string after a failure (continue).
ExaminedAttrs(attrs) == 1..Len(attrs)

\* Mutant: if (parseerror) exit(1) is missing.
SetAttributes_noExit(attrs) ==
    /\ At_("attrs")
    /\ LET failed == {i \in ExaminedAttrs(attrs) : ~attrs[i]} IN
       /\ drv' = [drv EXCEPT !.loc = "write",
                             !.attrs = attrs,
                             !.examined = Cardinality(ExaminedAttrs(attrs)),
                             !.reported = Cardinality(failed),
                             !.parseerror = failed # {}]
       /\ UNCHANGED <<pc, diag>>
    /\ MainOnly

\* Set the attributes (main.cpp:775-829).  attrs lists, for the strings of
\* --float-attribute, --int-attribute and --string-attribute in the order the
\* loops take them, whether the string parses.
SetAttributes(attrs) ==
    /\ At_("attrs")
    /\ LET failed == {i \in ExaminedAttrs(attrs) : ~attrs[i]} IN
       /\ drv' = [drv EXCEPT !.loc = IF failed = {} THEN "write" ELSE @,
                             !.attrs = attrs,
                             !.examined = Cardinality(ExaminedAttrs(attrs)),
                             !.reported = Cardinality(failed),
                             !.parseerror = failed # {}]
       /\ IF failed # {} THEN exit1(DiagAttribute) ELSE UNCHANGED <<pc, diag>>
    /\ MainOnly

\* Write out the result (main.cpp:831-866).  outcome = "create": no
\* ImageOutput could be created; "write": write_image failed or OIIO threw
\* after the file was opened.
WriteImage(outcome) ==
    /\ At_("write")
    /\ IF outcome = "create"
          THEN exit1(DiagWrite) /\ UNCHANGED drv
          ELSE IF outcome = "write"
          THEN exit1(DiagWrite) /\ drv' = [drv EXCEPT !.opened = TRUE]
          ELSE /\ drv' = [drv EXCEPT !.loc = "return", !.opened = TRUE, !.written = TRUE]
               /\ UNCHANGED <<pc, diag>>
    /\ MainOnly

\* return 0 (main.cpp:868).
Return ==
    /\ At_("return")
    /\ mainReturn
    /\ drv' = [drv EXCEPT !.loc = "done"]

\* At most MaxAttrs attribute strings are passed.
MaxAttrs == 2

AttrLists == UNION { [1..n -> BOOLEAN] : n \in 0..MaxAttrs }

\* The image files of the runs below: the data window at the origin; the full
\* region differs from it with --croptofull only.
DriverSpecs ==
    { sp \in ImageSpecs :
        /\ sp.x = 0 /\ sp.y = 0
        /\ sp.width * sp.height <= MaxPixels
        /\ sp.full_width * sp.full_height <= MaxPixels }

\* The channel lists of the runs below: none, the first n channels, one channel.
DriverKeeps ==
    {AllChannels(n) : n \in 0..MaxChannels} \cup {<<c>> : c \in 0..(MaxChannels - 1)}

\* main(), every run of it.
DriverNext ==
    \/ \E usegpu \in BOOLEAN, usegpuLegacy \in BOOLEAN, croptofull \in BOOLEAN,
          ok \in BOOLEAN :
           ParseArgs(usegpu, usegpuLegacy, croptofull, ok)
    \/ /\ At_("load")
       /\ \E spec \in DriverSpecs, format \in Formats, ok \in BOOLEAN :
              /\ drv.croptofull
                    \/ (spec.full_width = spec.width /\ spec.full_height = spec.height)
              /\ LoadImage(spec, format, ok)
    \/ /\ At_("crop")
       /\ \E given \in BOOLEAN, kch \in DriverKeeps, killed \in BOOLEAN :
              CropChannels(given, kch, killed)
    \/ InitializeGPU_Instance
    \/ \E verbose \in BOOLEAN : InitializeGPU_init(verbose)
    \/ InitializeGPU_prepareImage
    \/ \E fail \in BOOLEAN : GetProcessor(fail)
    \/ ProcessGPU_Instance
    \/ \E transform \in Transforms, gpuinfo \in BOOLEAN, fail \in LibFailures :
           ProcessGPU_updateGPUShader(transform, gpuinfo, fail)
    \/ ProcessGPU_processImage
    \/ ProcessGPU_readImage
    \/ \E fail \in BOOLEAN : ProcessCPU(fail)
    \/ \E attrs \in AttrLists : SetAttributes(attrs)
    \/ \E outcome \in {"ok", "create", "write"} : WriteImage(outcome)
    \/ Return
    \/ /\ UNCHANGED drv
       /\ StaticDestruction

DriverSpec == Init /\ [][DriverNext]_vars

\* ---------------------------------------------------------------------- C21
\* C21: in a run with --gpu or --gpulegacy, the calls the driver has made of
\* the orchestrator are a prefix of init, prepareImage, updateShader,
\* processImage, readImage (so in that order, each at most once), each made in
\* the state its operation requires; no wrong-state diagnostic is ever
\* written; and a call that ended the process did so for an unsupported
\* channel count, the missing capability or a failure of the library.
C21_DriverCallsInOrder ==
    (drv.usegpu \/ drv.usegpuLegacy) =>
        /\ Len(calls) <= Len(LegalOps)
        /\ \A i \in DOMAIN calls :
              /\ calls[i].op = LegalOps[i]
              /\ calls[i].from = i - 1
              /\ calls[i].result = "abort" => calls[i].diag \in {DiagBadChannels, DiagNoGL20}
              /\ calls[i].result = "throw" => calls[i].diag = DiagOCIO
              /\ calls[i].result \in {"ok", "abort", "throw"}
        /\ diag \notin {DiagNotInitialized, DiagNotPrepared, DiagNotUpdated,
                        DiagNotProcessed}

\* A GPU run that made the five calls and goes on to the attributes.
C21_Witness ==
    /\ drv.usegpu
    /\ pc = "running"
    /\ drv.loc = "attrs"
    /\ Len(calls) = 5
    /\ \A i \in DOMAIN calls : calls[i].result = "ok"
    /\ m_initState = STATE_IMAGE_READ

\* ---------------------------------------------------------------------- C24
\* C24: in a run with neither --gpu nor --gpulegacy, at every point after the
\* arguments are parsed and on every path to the exit, the singleton has not
\* been constructed, no operation of it has been called, no window or other
\* graphics resource exists, and no teardown has run.
C24_CPUModeLeavesOrchestratorAlone ==
    (drv.loc # "start" /\ ~drv.usegpu /\ ~drv.usegpuLegacy) =>
        /\ ~constructed
        /\ instSeen = -1
        /\ calls = <<>>
        /\ gl = glInit
        /\ glLog = <<>>
        /\ teardowns = 0
        /\ m_initState = STATE_CREATED

\* A CPU run that processed the image, wrote it and exited.
C24_Witness ==
    /\ ~drv.usegpu /\ ~drv.usegpuLegacy
    /\ drv.loc = "done"
    /\ pc = "exited"
    /\ drv.processed
    /\ drv.written

\* ---------------------------------------------------------------------- C25
\* C25: a run with --gpu or --gpulegacy and --croptofull never gets past the
\* load of the image: it ends there with an error, the singleton not
\* constructed and no operation called; and every call of prepareImage the
\* driver makes passes the width and height of the image file.
C25_GPUCropRefusedAtLoad ==
    /\ ((drv.usegpu \/ drv.usegpuLegacy) /\ drv.croptofull) =>
           /\ drv.loc = "load"
           /\ ~constructed
           /\ calls = <<>>
           /\ pc # "running" => diag \in {DiagLoad, DiagCropGPU}
    /\ \A i \in DOMAIN calls :
           calls[i].op = "prepareImage" =>
               /\ calls[i].args.width = drv.spec.width
               /\ calls[i].args.height = drv.spec.height

\* The run refused after the image was read.
C25_Witness ==
    /\ drv.usegpu
    /\ drv.croptofull
    /\ pc = "exited"
    /\ diag = DiagCropGPU
    /\ drv.spec.width = 2
    /\ ~constructed

\* ---------------------------------------------------------------------- C27
\* C27: when an attribute string failed to parse, every attribute string was
\* examined and every failing one reported, the process has left main with
\* the attribute diagnostic, and no output was opened or written, although the
\* processing had completed; and an output is opened or written only after
\* the processing completed and every attribute string parsed.
C27_NoOutputAfterAttributeError ==
    /\ drv.parseerror =>
           /\ drv.examined = Len(drv.attrs)
           /\ drv.reported = Cardinality({i \in DOMAIN drv.attrs : ~drv.attrs[i]})
           /\ pc # "running"
           /\ diag = DiagAttribute
           /\ drv.processed
           /\ ~drv.opened
           /\ ~drv.written
    /\ (drv.opened \/ drv.written) =>
           /\ drv.processed
           /\ ~drv.parseerror
           /\ \A i \in DOMAIN drv.attrs : drv.attrs[i]

\* Two strings, the first of which fails: both examined, one reported, the
\* process gone without an output.
C27_Witness ==
    /\ drv.attrs = <<FALSE, TRUE>>
    /\ drv.examined = 2
    /\ drv.reported = 1
    /\ drv.processed
    /\ pc = "exited"
    /\ ~drv.written

====
